---- MODULE Spec2Model ----
(***************************************************************************)
(* The "merge" prow plugin (prow/plugins/merge/merge.go).                  *)
(*                                                                         *)
(* The host dispatcher hands GenericCommentEvents to handleGenericComment, *)
(* concurrently.  An invocation filters the event, classifies the comment  *)
(* body with the two regular expressions, reads the labels of the issue    *)
(* through the GitHub client and adds or removes the "ok-to-merge" label.  *)
(* The GitHub client is an interface (githubClient): its three calls are   *)
(* steps of the environment, each of which may succeed or fail.            *)
(***************************************************************************)
EXTENDS Integers, Sequences, FiniteSets, TLC

(***************************************************************************)
(* Bounds and finite domains                                               *)
(***************************************************************************)

\* Number of events the host dispatches (hence of handler invocations).
NumInv == 2

Invs == 1..NumInv

\* The pull requests / issues (owner, repo, number) known to GitHub.
Issues == {"org/repo#1", "org/repo#2"}

\* var mergeLabel = "ok-to-merge"
mergeLabel == "ok-to-merge"

\* The labels GitHub knows: the gating label and one unrelated label.
Labels == {mergeLabel, "lgtm"}

\* github.GenericCommentEvent: the fields the handler reads.
IssueStates == {"open", "closed"}

GenericCommentActionCreated == "created"

Actions == {GenericCommentActionCreated, "edited", "deleted"}

(***************************************************************************)
(* Comment bodies are sequences of characters.                             *)
(***************************************************************************)

BodyMerge == <<"/", "m", "e", "r", "g", "e">>

BodyCancel == <<"/", "m", "e", "r", "g", "e", " ", "c", "a", "n", "c", "e", "l">>

\* "foo /merge bar": the command is not alone on its line.
BodyNone == <<"f", "o", "o", " ", "/", "m", "e", "r", "g", "e", " ", "b", "a", "r">>

Bodies == {BodyMerge, BodyCancel, BodyNone}

(***************************************************************************)
(* regexp: `(?mi)^/merge\s*$` and `(?mi)^/merge cancel\s*$`                *)
(***************************************************************************)

\* Lower, without the (?i) flag.
Lower_CaseSensitive(c) == c

\* Case folding of (?i), on the letters the model's bodies use.
Lower(c) ==
    CASE c = "M" -> "m" [] c = "E" -> "e" [] c = "R" -> "r" [] c = "G" -> "g"
      [] c = "C" -> "c" [] c = "A" -> "a" [] c = "N" -> "n" [] c = "L" -> "l"
      [] OTHER -> c

\* \s of RE2: [\t\n\f\r ]
IsSpace(c) == c \in {" ", "\t", "\n", "\f", "\r"}

\* ^ under (?m): at the start of the text or right after a newline.
BeginLine(b, i) == i = 1 \/ b[i - 1] = "\n"

\* $ under (?m): at the end of the text or right before a newline.
EndLine(b, j) == j = Len(b) + 1 \/ b[j] = "\n"

\* The literal part of the pattern matches b at position i, ignoring case.
MatchLit(lit, b, i) ==
    /\ i + Len(lit) - 1 <= Len(b)
    /\ \A k \in 1..Len(lit) : Lower(b[i + k - 1]) = lit[k]

\* MatchAt, without the ^ anchor.
MatchAt_NoBeginLine(lit, b, i) ==
    /\ MatchLit(lit, b, i)
    /\ \E j \in (i + Len(lit))..(Len(b) + 1) :
          /\ \A k \in (i + Len(lit))..(j - 1) : IsSpace(b[k])
          /\ EndLine(b, j)

\* MatchAt, without the \s* before the $ anchor.
MatchAt_NoTrailingSpace(lit, b, i) ==
    /\ BeginLine(b, i)
    /\ MatchLit(lit, b, i)
    /\ EndLine(b, i + Len(lit))

\* ^lit\s*$ matches b starting at position i.
MatchAt(lit, b, i) ==
    /\ BeginLine(b, i)
    /\ MatchLit(lit, b, i)
    /\ \E j \in (i + Len(lit))..(Len(b) + 1) :
          /\ \A k \in (i + Len(lit))..(j - 1) : IsSpace(b[k])
          /\ EndLine(b, j)

\* Regexp.MatchString: the pattern matches somewhere in b.
MatchString(lit, b) == \E i \in 1..Len(b) : MatchAt(lit, b, i)

mergeRe == <<"/", "m", "e", "r", "g", "e">>

mergeCancelRe == <<"/", "m", "e", "r", "g", "e", " ", "c", "a", "n", "c", "e", "l">>

(***************************************************************************)
(* Events and per-invocation results                                       *)
(***************************************************************************)

\* Every event the host can dispatch.
AllEvents ==
    [IsPR : BOOLEAN, IssueState : IssueStates, Action : Actions,
     Body : Bodies, Number : Issues]

\* How many of the three conditions of the event filter an event misses.
Faults(ev) ==
    (IF ev.IsPR THEN 0 ELSE 1)
    + (IF ev.IssueState = "open" THEN 0 ELSE 1)
    + (IF ev.Action = GenericCommentActionCreated THEN 0 ELSE 1)

\* The events the host dispatches in Spec: every event on an open pull
\* request with a created comment, and every event carrying a command that
\* misses exactly one condition of the filter.
Events ==
    {ev \in AllEvents :
        \/ Faults(ev) = 0
        \/ Faults(ev) = 1 /\ ev.Body \in {BodyMerge, BodyCancel}}

\* The event of an invocation that the host has not dispatched yet.
NoEvent == [IsPR |-> FALSE, IssueState |-> "none", Action |-> "none",
            Body |-> <<>>, Number |-> "none"]

\* How a call of the GitHub client may end: it succeeds, it fails without
\* effect, or it fails although GitHub has carried out the request.
ClientOutcomes == {"ok", "err", "errApplied"}

VARIABLES
    issueLabels,  \* GitHub: the labels of each issue
    pc,           \* where each invocation stands
    e,            \* the event each invocation was handed
    wantMerge,    \* handleGenericComment: wantMerge
    labels,       \* handle: labels, as returned by GetIssueLabels
    err,          \* handle: err, as returned by GetIssueLabels
    has,          \* handle: has
    result,       \* the error value the invocation returned to the host
    calls,        \* the client calls each invocation has made, in order
    seen,         \* history: the issue's labels when the invocation read them
    overlapped,   \* history: another invocation on the same issue was in
                  \* flight at some time while this one was
    config,       \* plugins.Configuration: config.Merge
    opts,         \* what the last call of optionsForRepo returned
    registry,     \* plugins: the handler and help registered under each name
    running,      \* the package's init has run and the host routes events
    writes        \* history: how many times the registry was written

handlerVars == <<issueLabels, pc, e, wantMerge, labels, err, has, result,
                 calls, seen, overlapped>>

hostVars == <<config, opts, registry, running, writes>>

vars == <<issueLabels, pc, e, wantMerge, labels, err, has, result, calls,
          seen, overlapped, config, opts, registry, running, writes>>

\* The invocation is between its first client call and its return.
InFlight(i) == pc[i] \in {"GetIssueLabels", "AddLabel", "RemoveLabel"}

(***************************************************************************)
(* handleGenericComment and handle, as operators on their locals           *)
(***************************************************************************)

\* Eligible, forgetting that edited and deleted comments are not considered.
Eligible_AnyAction(ev) ==
    /\ ev.IsPR
    /\ ev.IssueState = "open"

\* if !e.IsPR || e.IssueState != "open" || e.Action != GenericCommentActionCreated
Eligible(ev) ==
    /\ ev.IsPR
    /\ ev.IssueState = "open"
    /\ ev.Action = GenericCommentActionCreated

\* Command, testing mergeCancelRe before mergeRe.
Command_CancelFirst(body) ==
    IF MatchString(mergeCancelRe, body) THEN "cancel"
    ELSE IF MatchString(mergeRe, body) THEN "merge"
    ELSE "none"

\* The if / else if / else on mergeRe and mergeCancelRe.
Command(body) ==
    IF MatchString(mergeRe, body) THEN "merge"
    ELSE IF MatchString(mergeCancelRe, body) THEN "cancel"
    ELSE "none"

\* github.HasLabel(mergeLabel, labels)
HasLabel(label, ls) == label \in ls

\* What GetIssueLabels hands back: the labels and a nil error, or no labels
\* and an error.
GetIssueLabelsReturn(outcome, actual) ==
    IF outcome = "ok" THEN [labels |-> actual, err |-> "nil"]
    ELSE [labels |-> {}, err |-> "getErr"]

\* handle, with the two client calls swapped.
handle_Swapped(rderr, h, want) ==
    IF h /\ ~want THEN [pc |-> "AddLabel", result |-> "none"]
    ELSE IF ~h /\ want THEN [pc |-> "RemoveLabel", result |-> "none"]
    ELSE [pc |-> "done", result |-> "nil"]

\* handle, adding the label without looking at has.
handle_AlwaysAdd(rderr, h, want) ==
    IF h /\ ~want THEN [pc |-> "RemoveLabel", result |-> "none"]
    ELSE IF want THEN [pc |-> "AddLabel", result |-> "none"]
    ELSE [pc |-> "done", result |-> "nil"]

\* handle, removing the label without looking at has.
handle_AlwaysRemove(rderr, h, want) ==
    IF ~want THEN [pc |-> "RemoveLabel", result |-> "none"]
    ELSE IF ~h /\ want THEN [pc |-> "AddLabel", result |-> "none"]
    ELSE [pc |-> "done", result |-> "nil"]

\* handle, returning the error of GetIssueLabels instead of going on.
handle_AbortOnReadError(rderr, h, want) ==
    IF rderr # "nil" THEN [pc |-> "done", result |-> rderr]
    ELSE IF h /\ ~want THEN [pc |-> "RemoveLabel", result |-> "none"]
    ELSE IF ~h /\ want THEN [pc |-> "AddLabel", result |-> "none"]
    ELSE [pc |-> "done", result |-> "nil"]

\* handle, skipping AddLabel while another invocation is adding the label:
\* a package-level "in progress" flag shared by the invocations.
handle_SharedFlag(rderr, h, want) ==
    IF h /\ ~want THEN [pc |-> "RemoveLabel", result |-> "none"]
    ELSE IF ~h /\ want /\ ~(\E k \in Invs : pc[k] = "AddLabel")
         THEN [pc |-> "AddLabel", result |-> "none"]
    ELSE [pc |-> "done", result |-> "nil"]

\* handle, from the return of GetIssueLabels on: the read error is logged
\* and otherwise ignored; has and wantMerge pick the next call or the return.
handle(rderr, h, want) ==
    IF h /\ ~want THEN [pc |-> "RemoveLabel", result |-> "none"]
    ELSE IF ~h /\ want THEN [pc |-> "AddLabel", result |-> "none"]
    ELSE [pc |-> "done", result |-> "nil"]

\* handleReturn, dropping the error of AddLabel.
handleReturn_Swallow(op, outcome) ==
    IF outcome = "ok" \/ op = "AddLabel" THEN [pc |-> "done", result |-> "nil"]
    ELSE [pc |-> "done", result |-> "removeErr"]

\* handle, calling AddLabel or RemoveLabel again when the call failed.
handleReturn_Retry(op, outcome) ==
    IF outcome = "ok" THEN [pc |-> "done", result |-> "nil"]
    ELSE [pc |-> op, result |-> "none"]

\* handle, from the return of AddLabel or RemoveLabel on: the error of the
\* call, if any, is returned and the invocation ends.
handleReturn(op, outcome) ==
    IF outcome = "ok" THEN [pc |-> "done", result |-> "nil"]
    ELSE [pc |-> "done",
          result |-> IF op = "AddLabel" THEN "addErr" ELSE "removeErr"]

\* A call of handle, made on the first issue whatever the event.
Call_WrongIssue(op, ev, outcome) ==
    [op |-> op, number |-> "org/repo#1",
     label |-> IF op = "GetIssueLabels" THEN "" ELSE mergeLabel,
     ok |-> (outcome = "ok")]

\* A call handle makes: on the issue of its own event and, for AddLabel and
\* RemoveLabel, with mergeLabel.
Call(op, ev, outcome) ==
    [op |-> op, number |-> ev.Number,
     label |-> IF op = "GetIssueLabels" THEN "" ELSE mergeLabel,
     ok |-> (outcome = "ok")]

(***************************************************************************)
(* optionsForRepo                                                          *)
(***************************************************************************)

\* The number of entries config.Merge may have.
MaxEntries == 2

\* The Repos lists an entry of config.Merge may have.
RepoLists ==
    { <<>>,
      <<"orgA">>,
      <<"orgB/repoX">>,
      <<"orgA", "orgB/repoX">>,
      <<"orgC/repoX", "orgB">> }

Merge == [Repos : RepoLists]

Configurations == UNION {[1..n -> Merge] : n \in 0..MaxEntries}

Orgs == {"orgA", "orgB", "orgC"}

Repos == {"anyrepo", "repoX", "repoZ"}

\* fmt.Sprintf("%s/%s", org, repo)
Sprintf(org, repo) == org \o "/" \o repo

\* No call of optionsForRepo has returned yet.
NoOptions == [org |-> "", repo |-> "", ref |-> 0, val |-> [Repos |-> <<>>]]

\* strInSlice: some element of slice equals str.
strInSlice(str, slice) == \E k \in 1..Len(slice) : slice[k] = str

RECURSIVE optionsForRepoFrom(_, _, _, _)
\* The loop of optionsForRepo from index i on.  The result points into
\* config.Merge (ref is the index, val the entry) or, with ref 0, at a new
\* empty plugins.Merge.
optionsForRepoFrom(merge, org, repo, i) ==
    LET fullName == Sprintf(org, repo)
    IN IF i > Len(merge) THEN [ref |-> 0, val |-> [Repos |-> <<>>]]
       ELSE IF ~strInSlice(org, merge[i].Repos) /\ ~strInSlice(fullName, merge[i].Repos)
            THEN optionsForRepoFrom(merge, org, repo, i + 1)
            ELSE [ref |-> i, val |-> merge[i]]

RECURSIVE optionsForRepoDown(_, _, _, _)
optionsForRepoDown(merge, org, repo, i) ==
    IF i = 0 THEN [ref |-> 0, val |-> [Repos |-> <<>>]]
    ELSE IF ~strInSlice(org, merge[i].Repos) /\ ~strInSlice(Sprintf(org, repo), merge[i].Repos)
         THEN optionsForRepoDown(merge, org, repo, i - 1)
         ELSE [ref |-> i, val |-> merge[i]]

\* optionsForRepo, returning the last entry that matches.
optionsForRepo_LastMatch(merge, org, repo) ==
    optionsForRepoDown(merge, org, repo, Len(merge))

optionsForRepo(merge, org, repo) == optionsForRepoFrom(merge, org, repo, 1)

(***************************************************************************)
(* The registry of plugins                                                 *)
(***************************************************************************)

pluginName == "merge"

\* Nothing is registered under a name.
NoHandler == [handler |-> "", help |-> ""]

\* plugins.RegisterGenericCommentHandler(name, fn, help)
RegisterGenericCommentHandler(reg, name, fn, help) ==
    [reg EXCEPT ![name] = [handler |-> fn, help |-> help]]

(***************************************************************************)
(* The state machine                                                       *)
(***************************************************************************)

\* The unrelated labels each issue carries.
OtherLabels == [n \in Issues |-> IF n = "org/repo#1" THEN {"lgtm"} ELSE {}]

\* The scoping example: org "orgA" in the first entry and repository
\* "orgB/repoX" in the second.
ExampleConfig == <<[Repos |-> <<"orgA">>], [Repos |-> <<"orgB/repoX">>]>>

\* The process has been loaded and its package initialisation has yet to run.
Loaded ==
    /\ opts = NoOptions
    /\ registry = [n \in {pluginName} |-> NoHandler]
    /\ running = FALSE
    /\ writes = 0
    /\ issueLabels \in {f \in [Issues -> SUBSET Labels] :
                           \A n \in Issues : f[n] \ {mergeLabel} = OtherLabels[n]}
    /\ pc = [i \in Invs |-> "idle"]
    /\ e = [i \in Invs |-> NoEvent]
    /\ wantMerge = [i \in Invs |-> FALSE]
    /\ labels = [i \in Invs |-> {}]
    /\ err = [i \in Invs |-> "nil"]
    /\ has = [i \in Invs |-> FALSE]
    /\ result = [i \in Invs |-> "none"]
    /\ calls = [i \in Invs |-> <<>>]
    /\ seen = [i \in Invs |-> {}]
    /\ overlapped = [i \in Invs |-> FALSE]

Init == config = ExampleConfig /\ Loaded

\* init, run again whenever the registry has been written once.
init_Repeated ==
    /\ writes <= 1
    /\ registry' = RegisterGenericCommentHandler(registry, pluginName,
                        "handleGenericCommentEvent", "helpProvider")
    /\ writes' = writes + 1
    /\ running' = TRUE
    /\ UNCHANGED <<handlerVars, config, opts>>

\* init: the Go runtime runs it once, before main and so before the host
\* routes any event.
init ==
    /\ ~running
    /\ registry' = RegisterGenericCommentHandler(registry, pluginName,
                        "handleGenericCommentEvent", "helpProvider")
    /\ writes' = writes + 1
    /\ running' = TRUE
    /\ UNCHANGED <<handlerVars, config, opts>>

\* The host hands event ev to invocation i, which runs handleGenericComment
\* up to its return or, through handle, up to the call of GetIssueLabels.
\* Invocations are numbered in the order their events arrive.  The host
\* routes events to the handler it finds in the registry.
handleGenericComment(i, ev) ==
    /\ running
    /\ registry[pluginName].handler = "handleGenericCommentEvent"
    /\ pc[i] = "idle"
    /\ \A j \in Invs : j < i => pc[j] # "idle"
    /\ e' = [e EXCEPT ![i] = ev]
    /\ IF Eligible(ev) /\ Command(ev.Body) # "none"
       THEN /\ wantMerge' = [wantMerge EXCEPT ![i] = (Command(ev.Body) = "merge")]
            /\ pc' = [pc EXCEPT ![i] = "GetIssueLabels"]
            /\ result' = result
            /\ overlapped' =
                 [j \in Invs |->
                    IF j = i
                    THEN \E k \in Invs : InFlight(k) /\ e[k].Number = ev.Number
                    ELSE overlapped[j] \/ (InFlight(j) /\ e[j].Number = ev.Number)]
       ELSE /\ pc' = [pc EXCEPT ![i] = "done"]
            /\ result' = [result EXCEPT ![i] = "nil"]
            /\ UNCHANGED <<wantMerge, overlapped>>
    /\ UNCHANGED <<issueLabels, labels, err, has, calls, seen>>
    /\ UNCHANGED hostVars

\* GetIssueLabels returns to invocation i, and handle runs on to its next
\* client call or to its return.
GetIssueLabels(i, outcome) ==
    /\ pc[i] = "GetIssueLabels"
    /\ LET ret == GetIssueLabelsReturn(outcome, issueLabels[e[i].Number])
           h == HasLabel(mergeLabel, ret.labels)
           next == handle(ret.err, h, wantMerge[i])
       IN /\ labels' = [labels EXCEPT ![i] = ret.labels]
          /\ err' = [err EXCEPT ![i] = ret.err]
          /\ has' = [has EXCEPT ![i] = h]
          /\ pc' = [pc EXCEPT ![i] = next.pc]
          /\ result' = [result EXCEPT ![i] = next.result]
    /\ calls' = [calls EXCEPT ![i] = Append(@, Call("GetIssueLabels", e[i], outcome))]
    /\ seen' = [seen EXCEPT ![i] = issueLabels[e[i].Number]]
    /\ UNCHANGED <<issueLabels, e, wantMerge, overlapped>>
    /\ UNCHANGED hostVars

\* AddLabel returns to invocation i, which returns.
AddLabel(i, outcome) ==
    /\ pc[i] = "AddLabel"
    /\ LET c == Call("AddLabel", e[i], outcome)
           next == handleReturn("AddLabel", outcome)
       IN /\ issueLabels' =
                IF outcome = "err" THEN issueLabels
                ELSE [issueLabels EXCEPT ![c.number] = @ \cup {c.label}]
          /\ calls' = [calls EXCEPT ![i] = Append(@, c)]
          /\ pc' = [pc EXCEPT ![i] = next.pc]
          /\ result' = [result EXCEPT ![i] = next.result]
    /\ UNCHANGED <<e, wantMerge, labels, err, has, seen, overlapped>>
    /\ UNCHANGED hostVars

\* RemoveLabel returns to invocation i, which returns its result.
RemoveLabel(i, outcome) ==
    /\ pc[i] = "RemoveLabel"
    /\ LET c == Call("RemoveLabel", e[i], outcome)
           next == handleReturn("RemoveLabel", outcome)
       IN /\ issueLabels' =
                IF outcome = "err" THEN issueLabels
                ELSE [issueLabels EXCEPT ![c.number] = @ \ {c.label}]
          /\ calls' = [calls EXCEPT ![i] = Append(@, c)]
          /\ pc' = [pc EXCEPT ![i] = next.pc]
          /\ result' = [result EXCEPT ![i] = next.result]
    /\ UNCHANGED <<e, wantMerge, labels, err, has, seen, overlapped>>
    /\ UNCHANGED hostVars

Next ==
    \/ init
    \/ \E i \in Invs :
        \/ \E ev \in Events : handleGenericComment(i, ev)
        \/ \E outcome \in {"ok", "err"} : GetIssueLabels(i, outcome)
        \/ \E outcome \in ClientOutcomes : AddLabel(i, outcome)
        \/ \E outcome \in ClientOutcomes : RemoveLabel(i, outcome)

Spec == Init /\ [][Next]_vars

(***************************************************************************)
(* Vocabulary of the properties                                            *)
(***************************************************************************)

\* Line cmd stands alone in body b: preceded by the start of b or a newline
\* and followed by the end of b or a newline.
HasLine(b, cmd) ==
    \E i \in 1..(Len(b) - Len(cmd) + 1) :
        /\ i = 1 \/ b[i - 1] = "\n"
        /\ i + Len(cmd) = Len(b) + 1 \/ b[i + Len(cmd)] = "\n"
        /\ SubSeq(b, i, i + Len(cmd) - 1) = cmd

\* The body has a line that is exactly "/merge", exactly "/merge cancel".
HasMergeLine(b) == HasLine(b, <<"/", "m", "e", "r", "g", "e">>)

HasCancelLine(b) ==
    HasLine(b, <<"/", "m", "e", "r", "g", "e", " ", "c", "a", "n", "c", "e", "l">>)

\* The event is on an open pull request and its comment was just created.
OpenPRCreated(ev) == ev.IsPR /\ ev.IssueState = "open" /\ ev.Action = "created"

\* Invocation i was handed an eligible event that asks for the label
\* (a "/merge" line), that asks for its removal (a "/merge cancel" line and
\* no "/merge" line), either of them.
AsksMerge(i) == OpenPRCreated(e[i]) /\ HasMergeLine(e[i].Body)

AsksCancel(i) ==
    OpenPRCreated(e[i]) /\ HasCancelLine(e[i].Body) /\ ~HasMergeLine(e[i].Body)

AsksCommand(i) == AsksMerge(i) \/ AsksCancel(i)

Returned(i) == pc[i] = "done"

\* GetIssueLabels has returned to invocation i; it returned without error.
HasRead(i) == Len(calls[i]) >= 1

ReadOk(i) == HasRead(i) /\ calls[i][1].ok

\* The calls of op invocation i has issued: those that have returned and
\* the one it is waiting for.
Issued(i, op) ==
    Cardinality({k \in 1..Len(calls[i]) : calls[i][k].op = op})
    + (IF pc[i] = op /\ op # "GetIssueLabels" THEN 1 ELSE 0)

Mutations(i) == Issued(i, "AddLabel") + Issued(i, "RemoveLabel")

\* Every mutation call invocation i has made succeeded.
MutationsOk(i) ==
    \A k \in 1..Len(calls[i]) : calls[i][k].op # "GetIssueLabels" => calls[i][k].ok

Present(n) == mergeLabel \in issueLabels[n]

\* The command invocations on issue n that have returned.
ReturnedCommands(n) == {j \in Invs : Returned(j) /\ AsksCommand(j) /\ e[j].Number = n}

\* Of the commands for issue n whose invocations have returned, the one that
\* arrived last asks for the label.
LatestAsksMerge(n) ==
    \E j \in ReturnedCommands(n) :
        /\ AsksMerge(j)
        /\ \A k \in ReturnedCommands(n) : k <= j

(***************************************************************************)
(* C1                                                                      *)
(***************************************************************************)

\* Invocation i returns in this step, with success, from a command.
ReturnsSuccess(i) ==
    /\ ~Returned(i)
    /\ Returned(i)'
    /\ AsksCommand(i)'
    /\ result'[i] = "nil"

\* The label of i's issue is present exactly if the latest returned command
\* for that issue asks for it.
LabelFollowsLatest(i) == Present(e[i].Number) <=> LatestAsksMerge(e[i].Number)

\* C1, as claimed: whenever an invocation that carried a command returns
\* success, the presence of "ok-to-merge" on its issue equals the intent of
\* the most recent command for that issue.  (A failed AddLabel or RemoveLabel
\* makes the invocation return an error, so it is not covered.)
C1_LabelEqualsLatestIntent ==
    [][\A i \in Invs : ReturnsSuccess(i) => LabelFollowsLatest(i)']_vars

\* C1, amended: whenever an invocation that carried a command returns
\* success, and its GetIssueLabels call succeeded, and no other invocation on
\* the same issue was in flight while it ran, the presence of "ok-to-merge" on
\* its issue equals the intent of the most recent command for that issue.
C1_LabelEqualsLatestIntentWhenAlone ==
    [][\A i \in Invs :
          ReturnsSuccess(i) /\ ReadOk(i)' /\ ~overlapped'[i]
             => LabelFollowsLatest(i)']_vars

\* Two commands of opposite intent on one issue, handled one after the other:
\* both read the labels, both changed the label and returned success, and the
\* label is as the second one asked.
C1_Witness ==
    /\ AsksMerge(1) /\ AsksCancel(2) /\ e[1].Number = e[2].Number
    /\ Returned(1) /\ Returned(2)
    /\ result[1] = "nil" /\ result[2] = "nil"
    /\ ReadOk(1) /\ ReadOk(2)
    /\ ~overlapped[1] /\ ~overlapped[2]
    /\ Mutations(1) = 1 /\ Mutations(2) = 1
    /\ ~Present(e[2].Number)

(***************************************************************************)
(* C2                                                                      *)
(***************************************************************************)

\* C2: an event that is not on a pull request, or not on an open issue, or
\* whose action is not "created", makes the handler return nil without any
\* call of the client, whatever its body.
C2_IneligibleNoCalls ==
    \A i \in Invs :
        (e[i] # NoEvent /\ (~e[i].IsPR \/ e[i].IssueState # "open" \/ e[i].Action # "created"))
            => calls[i] = <<>> /\ pc[i] = "done" /\ result[i] = "nil"

\* An edited "/merge" comment and a "/merge cancel" comment on a closed pull
\* request have both been handled.
C2_Witness ==
    /\ e[1].Action = "edited" /\ e[1].IsPR /\ e[1].IssueState = "open"
    /\ HasMergeLine(e[1].Body) /\ ~Present(e[1].Number)
    /\ e[2].IssueState = "closed" /\ e[2].IsPR /\ e[2].Action = "created"
    /\ HasCancelLine(e[2].Body) /\ Present(e[2].Number)
    /\ Returned(1) /\ Returned(2)
    /\ calls[1] = <<>> /\ calls[2] = <<>>

(***************************************************************************)
(* C3                                                                      *)
(***************************************************************************)

\* Invocations i and j, in arrival order, carry the same command for the
\* same issue and no command of the opposite intent for it arrived between.
SameRun(i, j) ==
    /\ i < j
    /\ AsksCommand(i) /\ AsksCommand(j)
    /\ e[i].Number = e[j].Number
    /\ AsksMerge(i) <=> AsksMerge(j)
    /\ \A k \in (i + 1)..(j - 1) :
          (AsksCommand(k) /\ e[k].Number = e[i].Number)
             => (AsksMerge(k) <=> AsksMerge(i))

\* The command invocations for i's issue from i to j.
RunMembers(i, j) == {k \in i..j : AsksCommand(k) /\ e[k].Number = e[i].Number}

RECURSIVE RunMutations(_, _)
\* The AddLabel and RemoveLabel calls issued by the run from i to j.
RunMutations(i, j) ==
    IF j < i THEN 0
    ELSE (IF j \in RunMembers(i, j) THEN Mutations(j) ELSE 0) + RunMutations(i, j - 1)

\* C3, as claimed: invocations carrying the same command for the same issue,
\* with no opposite command between them, issue at most one AddLabel or
\* RemoveLabel call among them.
C3_NoRepeatedWrites ==
    \A i, j \in Invs : SameRun(i, j) => RunMutations(i, j) <= 1

\* C3, amended: such invocations issue at most one AddLabel or RemoveLabel
\* call among them provided they are handled one after the other, overlapping
\* no other invocation on the issue, and every GetIssueLabels, AddLabel and
\* RemoveLabel call they make succeeds.
C3_NoRepeatedWritesInSequence ==
    \A i, j \in Invs :
        (/\ SameRun(i, j)
         /\ \A k \in RunMembers(i, j) :
               /\ ~overlapped[k]
               /\ HasRead(k) => ReadOk(k)
               /\ MutationsOk(k))
            => RunMutations(i, j) <= 1

\* Two "/merge" comments on one issue handled in sequence: the first added the
\* label, the second read the labels and wrote nothing.
C3_Witness ==
    /\ SameRun(1, 2) /\ AsksMerge(1)
    /\ Returned(1) /\ Returned(2)
    /\ ~overlapped[1] /\ ~overlapped[2]
    /\ ReadOk(1) /\ ReadOk(2) /\ MutationsOk(1)
    /\ Mutations(1) = 1 /\ Mutations(2) = 0

(***************************************************************************)
(* C4                                                                      *)
(***************************************************************************)

\* When invocation i read the labels, the label state of its issue already
\* was what its command asks for.
AlreadyAsWanted(i) ==
    /\ AsksCommand(i)
    /\ HasRead(i)
    /\ AsksMerge(i) <=> mergeLabel \in seen[i]

\* Invocation i has returned success without an AddLabel or RemoveLabel call.
NoMutationSuccess(i) == Returned(i) /\ result[i] = "nil" /\ Mutations(i) = 0

\* C4, as claimed: an eligible command whose intent equals the current label
\* state of the issue issues no AddLabel and no RemoveLabel call and returns
\* success.
C4_NoMutationWhenAsWanted ==
    \A i \in Invs : AlreadyAsWanted(i) => NoMutationSuccess(i)

\* C4, amended: the same, provided GetIssueLabels succeeded or the intent is
\* cancel.
C4_NoMutationWhenReadAsWanted ==
    \A i \in Invs :
        (AlreadyAsWanted(i) /\ (ReadOk(i) \/ AsksCancel(i))) => NoMutationSuccess(i)

\* A "/merge" on a labelled issue and a "/merge cancel" on an unlabelled one
\* have returned after their reads.
C4_Witness ==
    /\ AsksMerge(1) /\ ReadOk(1) /\ mergeLabel \in seen[1]
    /\ AsksCancel(2) /\ ReadOk(2) /\ mergeLabel \notin seen[2]
    /\ NoMutationSuccess(1) /\ NoMutationSuccess(2)

(***************************************************************************)
(* C5 and C6                                                               *)
(***************************************************************************)

\* Every AddLabel and RemoveLabel call of invocation i is for mergeLabel on
\* the issue of i's event.
OwnTarget(i) ==
    \A k \in 1..Len(calls[i]) :
        calls[i][k].op # "GetIssueLabels"
            => calls[i][k].number = e[i].Number /\ calls[i][k].label = "ok-to-merge"

\* C5: an eligible event with a "/merge" line, on an issue that has no labels
\* when they are read, issues exactly one AddLabel call, for "ok-to-merge" on
\* that issue, and no RemoveLabel call.
C5_MergeOnUnlabelledAdds ==
    \A i \in Invs :
        (OpenPRCreated(e[i]) /\ HasMergeLine(e[i].Body) /\ HasRead(i) /\ seen[i] = {})
            => /\ Issued(i, "AddLabel") = 1
               /\ Issued(i, "RemoveLabel") = 0
               /\ OwnTarget(i)

\* A "/merge" on an issue without labels has added the label.
C5_Witness ==
    /\ AsksMerge(1) /\ ReadOk(1) /\ seen[1] = {} /\ Returned(1)
    /\ Len(calls[1]) = 2 /\ calls[1][2].op = "AddLabel" /\ calls[1][2].ok
    /\ result[1] = "nil" /\ Present(e[1].Number)

\* Invocation i issues exactly one RemoveLabel call, for "ok-to-merge" on its
\* issue, and no AddLabel call.
RemovesOnce(i) ==
    /\ Issued(i, "RemoveLabel") = 1
    /\ Issued(i, "AddLabel") = 0
    /\ OwnTarget(i)

\* C6, as claimed: an eligible event with a "/merge cancel" line and no
\* "/merge" line, on an issue that carries "ok-to-merge", issues exactly one
\* RemoveLabel call and no AddLabel call.
C6_CancelOnLabelledRemoves ==
    \A i \in Invs :
        (AsksCancel(i) /\ HasRead(i) /\ mergeLabel \in seen[i]) => RemovesOnce(i)

\* C6, amended: the same, provided the GetIssueLabels call succeeds.
C6_CancelOnLabelledRemovesWhenRead ==
    \A i \in Invs :
        (AsksCancel(i) /\ ReadOk(i) /\ mergeLabel \in seen[i]) => RemovesOnce(i)

\* A "/merge cancel" on a labelled issue has removed the label.
C6_Witness ==
    /\ AsksCancel(1) /\ ReadOk(1) /\ mergeLabel \in seen[1] /\ Returned(1)
    /\ Len(calls[1]) = 2 /\ calls[1][2].op = "RemoveLabel" /\ calls[1][2].ok
    /\ result[1] = "nil" /\ ~Present(e[1].Number)

(***************************************************************************)
(* C7                                                                      *)
(***************************************************************************)

\* C7: when the AddLabel or RemoveLabel call of an invocation fails, it is the
\* last (and only) such call of the invocation, which makes no further call
\* and returns the error of that call.
C7_WriteFailureReturned ==
    \A i \in Invs : \A k \in 1..Len(calls[i]) :
        (calls[i][k].op # "GetIssueLabels" /\ ~calls[i][k].ok)
            => /\ k = Len(calls[i])
               /\ Returned(i)
               /\ Mutations(i) = 1
               /\ result[i] = IF calls[i][k].op = "AddLabel" THEN "addErr" ELSE "removeErr"

\* A failed AddLabel and a failed RemoveLabel have both been returned.
C7_Witness ==
    /\ Returned(1) /\ Len(calls[1]) = 2
    /\ calls[1][2].op = "AddLabel" /\ ~calls[1][2].ok /\ result[1] = "addErr"
    /\ Returned(2) /\ Len(calls[2]) = 2
    /\ calls[2][2].op = "RemoveLabel" /\ ~calls[2][2].ok /\ result[2] = "removeErr"

(***************************************************************************)
(* C8                                                                      *)
(***************************************************************************)

\* C8: when GetIssueLabels fails the invocation goes on as if the label were
\* absent and never returns the read error: a "/merge" issues one AddLabel
\* call (and no RemoveLabel call), a "/merge cancel" returns success without
\* an AddLabel or RemoveLabel call, whatever the labels of the issue are.
C8_ReadFailureMasked ==
    \A i \in Invs :
        (AsksCommand(i) /\ HasRead(i) /\ ~ReadOk(i))
            => /\ result[i] # "getErr"
               /\ AsksMerge(i) =>
                     Issued(i, "AddLabel") = 1 /\ Issued(i, "RemoveLabel") = 0
               /\ AsksCancel(i) => NoMutationSuccess(i)

\* On labelled issues, a "/merge" whose read failed has called AddLabel and a
\* "/merge cancel" whose read failed has returned success.
C8_Witness ==
    /\ AsksMerge(1) /\ HasRead(1) /\ ~ReadOk(1) /\ mergeLabel \in seen[1]
    /\ Len(calls[1]) = 2 /\ calls[1][2].op = "AddLabel"
    /\ AsksCancel(2) /\ HasRead(2) /\ ~ReadOk(2) /\ mergeLabel \in seen[2]
    /\ NoMutationSuccess(2) /\ Present(e[2].Number)

(***************************************************************************)
(* C9                                                                      *)
(***************************************************************************)

\* A "/merge" (invocation i) arrived before a "/merge cancel" (invocation j)
\* for the same issue, and both read the labels, successfully, while the
\* label was absent: j read before the AddLabel of i took effect.
CancelReadBeforeAdd(i, j) ==
    /\ i < j
    /\ AsksMerge(i) /\ AsksCancel(j)
    /\ e[i].Number = e[j].Number
    /\ ReadOk(i) /\ ReadOk(j)
    /\ mergeLabel \notin seen[i] /\ mergeLabel \notin seen[j]

\* No invocation other than i issues an AddLabel or RemoveLabel call for the
\* issue of i.
OnlyWriter(i) ==
    \A k \in Invs \ {i} : e[k].Number = e[i].Number => Mutations(k) = 0

\* C9: in every such interleaving the later "/merge cancel" returns success
\* without a RemoveLabel call and the earlier "/merge" issues its AddLabel
\* call; when that call succeeds the "/merge" returns success too and, no
\* other invocation writing to the issue, the label stays present, against the
\* intent of the comment that arrived last.  (C9_Witness is the reachable
\* interleaving the claim speaks of.)
C9_OutOfOrder ==
    \A i, j \in Invs :
        CancelReadBeforeAdd(i, j)
            => /\ NoMutationSuccess(j)
               /\ Issued(i, "AddLabel") = 1 /\ Issued(i, "RemoveLabel") = 0
               /\ (Returned(i) /\ MutationsOk(i))
                     => /\ result[i] = "nil"
                        /\ OnlyWriter(i) => Present(e[i].Number)

\* The two invocations ran concurrently, both returned success and the label
\* is present although the "/merge cancel" arrived last.
C9_Witness ==
    /\ CancelReadBeforeAdd(1, 2)
    /\ overlapped[1] /\ overlapped[2]
    /\ Returned(1) /\ Returned(2)
    /\ result[1] = "nil" /\ result[2] = "nil"
    /\ Present(e[2].Number)

(***************************************************************************)
(* C10                                                                     *)
(***************************************************************************)

\* Invocation i has called GetIssueLabels.
Started(i) == pc[i] = "GetIssueLabels" \/ HasRead(i)

\* What invocation i did once GetIssueLabels had returned.
AfterRead(i) ==
    IF Len(calls[i]) >= 2 THEN calls[i][2].op
    ELSE IF pc[i] \in {"AddLabel", "RemoveLabel"} THEN pc[i]
    ELSE "return"

MaxLines == 2

\* The lines comments are made of: the two commands in several spellings,
\* with white space before or after them, and lines that are no command.
CommentLines ==
    { <<"/", "m", "e", "r", "g", "e">>,
      <<"/", "M", "E", "R", "G", "E">>,
      <<"/", "m", "e", "r", "g", "e", " ", "\t">>,
      <<"/", "m", "e", "r", "g", "e", "\r">>,
      <<" ", "/", "m", "e", "r", "g", "e">>,
      <<"/", "m", "e", "r", "g", "e", " ", "c", "a", "n", "c", "e", "l">>,
      <<"/", "M", "e", "r", "g", "e", " ", "C", "A", "N", "C", "E", "L">>,
      <<"/", "m", "e", "r", "g", "e", " ", "c", "a", "n", "c", "e", "l", "\t">>,
      <<"\t", "/", "m", "e", "r", "g", "e", " ", "c", "a", "n", "c", "e", "l">>,
      <<"/", "m", "e", "r", "g", "e", " ", " ", "c", "a", "n", "c", "e", "l">>,
      <<"f", "o", "o", " ", "/", "m", "e", "r", "g", "e", " ", "b", "a", "r">>,
      <<"/", "m", "e", "r", "g", "e", "d">>,
      <<"l", "g", "t", "m">>,
      <<>> }

RECURSIVE JoinLines(_)
\* The lines ls, a newline between each two.
JoinLines(ls) ==
    IF Len(ls) = 0 THEN <<>>
    ELSE IF Len(ls) = 1 THEN ls[1]
    ELSE ls[1] \o <<"\n">> \o JoinLines(Tail(ls))

\* The comment bodies of one to MaxLines lines.
CommentBodies ==
    {JoinLines(ls) : ls \in UNION {[1..n -> CommentLines] : n \in 1..MaxLines}}

\* The events that carry them: created comments on open pull requests.
CommentEvents ==
    [IsPR : {TRUE}, IssueState : {"open"}, Action : {GenericCommentActionCreated},
     Body : CommentBodies, Number : Issues]

\* One event is dispatched and handled.
NextComments ==
    \/ init
    \/ pc[1] = "idle" /\ \E ev \in CommentEvents : handleGenericComment(1, ev)
    \/ \E outcome \in {"ok", "err"} : GetIssueLabels(1, outcome)
    \/ \E outcome \in ClientOutcomes : AddLabel(1, outcome)
    \/ \E outcome \in ClientOutcomes : RemoveLabel(1, outcome)

SpecComments == Init /\ [][NextComments]_vars

(***************************************************************************)
(* Vocabulary of the properties of comment bodies                          *)
(***************************************************************************)

RECURSIVE LineEnd(_, _)
\* The position right after the line of b that holds position i.
LineEnd(b, i) == IF i > Len(b) \/ b[i] = "\n" THEN i ELSE LineEnd(b, i + 1)

\* The lines of body b.
LinesOf(b) ==
    {SubSeq(b, i, LineEnd(b, i) - 1) :
        i \in {k \in 1..(Len(b) + 1) : k = 1 \/ b[k - 1] = "\n"}}

\* White space within a line.
Blank(c) == c \in {" ", "\t", "\r", "\f"}

RECURSIVE TrimRight(_)
\* Line l without the white space at its end, at its start.
TrimRight(l) ==
    IF l # <<>> /\ Blank(l[Len(l)]) THEN TrimRight(SubSeq(l, 1, Len(l) - 1)) ELSE l

RECURSIVE TrimLeft(_)
TrimLeft(l) == IF l # <<>> /\ Blank(l[1]) THEN TrimLeft(Tail(l)) ELSE l

SmallLetter ==
    "M" :> "m" @@ "E" :> "e" @@ "R" :> "r" @@ "G" :> "g" @@ "C" :> "c"
    @@ "A" :> "a" @@ "N" :> "n" @@ "L" :> "l"

\* Line l in small letters.
FoldCase(l) ==
    [k \in 1..Len(l) |-> IF l[k] \in DOMAIN SmallLetter THEN SmallLetter[l[k]] ELSE l[k]]

TokenMerge == <<"/", "m", "e", "r", "g", "e">>

TokenCancel == <<"/", "m", "e", "r", "g", "e", " ", "c", "a", "n", "c", "e", "l">>

\* Some line of b is the token, in any letter case, with optional white
\* space after it.
LineThenSpace(b, token) == \E l \in LinesOf(b) : FoldCase(TrimRight(l)) = token

\* Some line of b is the token, in any letter case, with optional white
\* space before and after it.
LineAmidSpace(b, token) ==
    \E l \in LinesOf(b) : FoldCase(TrimLeft(TrimRight(l))) = token

\* Invocation i found "/merge", found "/merge cancel", found no command.
ClassifiedMerge(i) == Started(i) /\ wantMerge[i]

ClassifiedCancel(i) == Started(i) /\ ~wantMerge[i]

ClassifiedNone(i) == Returned(i) /\ calls[i] = <<>> /\ result[i] = "nil"

(***************************************************************************)
(* C11                                                                     *)
(***************************************************************************)

\* C11: a body with both a "/merge" line and a "/merge cancel" line, in
\* either order, is taken as a "/merge" (wantMerge is true), and its
\* invocation never calls RemoveLabel.
C11_MergeWinsOverCancel ==
    \A i \in Invs :
        (/\ OpenPRCreated(e[i])
         /\ LineThenSpace(e[i].Body, TokenMerge)
         /\ LineThenSpace(e[i].Body, TokenCancel))
            => ClassifiedMerge(i) /\ Issued(i, "RemoveLabel") = 0

\* "/merge cancel" followed by "/merge", on a labelled issue: the invocation
\* has returned and the label is still there.
C11_Witness ==
    /\ e[1].Body = JoinLines(<<TokenCancel, TokenMerge>>)
    /\ ReadOk(1) /\ mergeLabel \in seen[1]
    /\ NoMutationSuccess(1)
    /\ Present(e[1].Number)

(***************************************************************************)
(* C12                                                                     *)
(***************************************************************************)

\* C12 as stated: a body with a line that is only "/merge", in any letter
\* case, with optional white space before and/or after it, is taken as a
\* "/merge".  The pattern is anchored at the start of the line, so the line
\* " /merge" is no command.
C12_MergeLineAmidSpace ==
    \A i \in Invs :
        (OpenPRCreated(e[i]) /\ LineAmidSpace(e[i].Body, TokenMerge))
            => ClassifiedMerge(i)

\* C12: a body with a line that is only "/merge", in any letter case, with
\* optional white space after it, is taken as a "/merge"; "/MERGE" is taken
\* as "/merge" is.
C12_MergeLineThenSpace ==
    \A i \in Invs :
        (OpenPRCreated(e[i]) /\ LineThenSpace(e[i].Body, TokenMerge))
            => ClassifiedMerge(i)

\* "/MERGE" on an unlabelled issue has added the label.
C12_Witness ==
    /\ e[1].Body = <<"/", "M", "E", "R", "G", "E">>
    /\ ClassifiedMerge(1)
    /\ Issued(1, "AddLabel") = 1
    /\ Returned(1) /\ result[1] = "nil"
    /\ Present(e[1].Number)

(***************************************************************************)
(* C13                                                                     *)
(***************************************************************************)

\* C13 as stated: a body with no "/merge" line and a line that is only
\* "/merge cancel", in any letter case, with optional white space before
\* and/or after it, is taken as a "/merge cancel".  The line
\* "\t/merge cancel" is no command.
C13_CancelLineAmidSpace ==
    \A i \in Invs :
        (/\ OpenPRCreated(e[i])
         /\ ~LineAmidSpace(e[i].Body, TokenMerge)
         /\ LineAmidSpace(e[i].Body, TokenCancel))
            => ClassifiedCancel(i)

\* C13: a body with no "/merge" line and a line that is only
\* "/merge cancel", in any letter case, with optional white space after it,
\* is taken as a "/merge cancel": wantMerge is false and handle runs.
C13_CancelLineThenSpace ==
    \A i \in Invs :
        (/\ OpenPRCreated(e[i])
         /\ ~LineThenSpace(e[i].Body, TokenMerge)
         /\ LineThenSpace(e[i].Body, TokenCancel))
            => ClassifiedCancel(i)

\* "/Merge CANCEL" after a line of text, on a labelled issue, has removed
\* the label.
C13_Witness ==
    /\ e[1].Body = JoinLines(<<<<"l", "g", "t", "m">>,
                               <<"/", "M", "e", "r", "g", "e", " ", "C", "A", "N", "C", "E", "L">>>>)
    /\ ClassifiedCancel(1)
    /\ Issued(1, "RemoveLabel") = 1
    /\ Returned(1) /\ result[1] = "nil"
    /\ ~Present(e[1].Number)

(***************************************************************************)
(* C14                                                                     *)
(***************************************************************************)

\* C14: a body in which no line is a command alone (such as
\* "foo /merge bar") is taken as no command, and the invocation of an open
\* pull request's new comment without a command returns nil without any
\* client call, GetIssueLabels included.
C14_NoCommandNoCalls ==
    \A i \in Invs :
        (/\ OpenPRCreated(e[i])
         /\ ~LineThenSpace(e[i].Body, TokenMerge)
         /\ ~LineThenSpace(e[i].Body, TokenCancel))
            => ClassifiedNone(i) /\ ~Started(i)

\* "foo /merge bar" under a "/merged" line has returned nil without a call.
C14_Witness ==
    /\ e[1] # NoEvent
    /\ e[1].Body = JoinLines(<<<<"/", "m", "e", "r", "g", "e", "d">>, BodyNone>>)
    /\ ClassifiedNone(1)

(***************************************************************************)
(* Calls of optionsForRepo under any configuration                         *)
(***************************************************************************)

InitOptions == config \in Configurations /\ Loaded

\* optionsForRepo(config, org, repo) is called and returns.
RepoScopeResolver(org, repo) ==
    /\ running
    /\ LET r == optionsForRepo(config, org, repo)
       IN opts' = [org |-> org, repo |-> repo, ref |-> r.ref, val |-> r.val]
    /\ UNCHANGED <<handlerVars, config, registry, running, writes>>

NextOptions ==
    \/ init
    \/ \E org \in Orgs, repo \in Repos : RepoScopeResolver(org, repo)

SpecOptions == InitOptions /\ [][NextOptions]_vars

\* Entry entry lists name.
Listed(entry, name) == name \in {entry.Repos[k] : k \in DOMAIN entry.Repos}

\* The entries of cfg that list the org or the full name of the repository.
Matching(cfg, org, repo) ==
    {k \in DOMAIN cfg : Listed(cfg[k], org) \/ Listed(cfg[k], org \o "/" \o repo)}

\* opts is the first entry of config that lists the repository asked for,
\* or an empty value if no entry does.
FirstMatchReturned ==
    opts # NoOptions =>
        LET m == Matching(config, opts.org, opts.repo)
        IN IF m = {}
           THEN opts.ref = 0 /\ opts.val = [Repos |-> <<>>]
           ELSE /\ opts.ref \in m
                /\ \A k \in m : opts.ref <= k
                /\ opts.val = config[opts.ref]

\* Under the example configuration orgA/anyrepo gets the first entry and
\* orgC/repoZ the default.
ExampleResolved ==
    config = ExampleConfig =>
        /\ (opts.org = "orgA" /\ opts.repo = "anyrepo") => opts.ref = 1
        /\ (opts.org = "orgC" /\ opts.repo = "repoZ") => opts.ref = 0

(***************************************************************************)
(* C15                                                                     *)
(***************************************************************************)

\* C15: optionsForRepo returns the first entry, in the order of the list,
\* whose Repos holds the org or "org/repo", and an empty value if there is
\* none; under the example configuration orgA/anyrepo gets the first entry
\* and orgC/repoZ the default; the configuration is never changed.
C15_FirstMatchOrDefault ==
    /\ [](FirstMatchReturned /\ ExampleResolved)
    /\ [][config' = config]_vars

\* Two different entries list the repository asked for and the first of
\* them was returned.
C15_Witness ==
    /\ opts # NoOptions
    /\ Cardinality(Matching(config, opts.org, opts.repo)) = 2
    /\ config[1] # config[2]
    /\ opts.ref = 1 /\ opts.val = config[1]

(***************************************************************************)
(* C16                                                                     *)
(***************************************************************************)

\* The record init registers: the plugin's name, its handler and its help.
Registration ==
    [n \in {pluginName} |->
        [handler |-> "handleGenericCommentEvent", help |-> "helpProvider"]]

\* An event has been handed to some invocation.
SomeEventHandled == \E i \in Invs : e[i] # NoEvent

\* The step is one of a handler invocation.
HandlerStep == \E i \in Invs : pc'[i] # pc[i]

\* C16: the registration of "merge" with its handler and help is written
\* into the registry exactly once, before any event is handled, and no step
\* of a handler invocation writes to the registry.
C16_RegisteredOnceBeforeEvents ==
    /\ [](writes <= 1)
    /\ [](SomeEventHandled => writes = 1 /\ registry = Registration)
    /\ [][HandlerStep => registry' = registry /\ writes' = writes]_vars

\* Every invocation has returned, one of them after client calls, and the
\* registry was written once.
C16_Witness ==
    /\ \A i \in Invs : Returned(i)
    /\ \E i \in Invs : Len(calls[i]) = 2
    /\ writes = 1
    /\ registry = Registration

(***************************************************************************)
(* C17                                                                     *)
(***************************************************************************)

\* Invocation i, which carried a command, returns in this step.
CommandReturns(i) == ~Returned(i) /\ Returned(i)' /\ AsksCommand(i)'

\* C17: when an invocation that carried a command returns, and no other
\* invocation on its issue was in flight while it ran, and its GetIssueLabels
\* call and every AddLabel or RemoveLabel call it made succeeded, the
\* presence of "ok-to-merge" on its issue equals its wantMerge.
C17_LabelAsWantedAtReturn ==
    [][\A i \in Invs :
          (CommandReturns(i) /\ ~overlapped'[i] /\ ReadOk(i)' /\ MutationsOk(i)')
              => (Present(e[i].Number)' <=> wantMerge'[i])]_vars

\* A "/merge cancel" handled alone has read the label, removed it and
\* returned, while no other event has arrived.
C17_Witness ==
    /\ AsksCancel(1) /\ ~wantMerge[1]
    /\ Returned(1) /\ ~overlapped[1]
    /\ ReadOk(1) /\ MutationsOk(1) /\ Mutations(1) = 1
    /\ mergeLabel \in seen[1]
    /\ ~Present(e[1].Number)
    /\ pc[2] = "idle"

(***************************************************************************)
(* C18                                                                     *)
(***************************************************************************)

\* The GetIssueLabels calls invocation i has issued, the one it is waiting
\* for included.
Reads(i) ==
    Cardinality({k \in 1..Len(calls[i]) : calls[i][k].op = "GetIssueLabels"})
    + (IF pc[i] = "GetIssueLabels" THEN 1 ELSE 0)

\* C18: every invocation issues at most one GetIssueLabels call and at most
\* one AddLabel or RemoveLabel call, never both an AddLabel and a RemoveLabel
\* call, and issues the AddLabel or RemoveLabel call only once GetIssueLabels
\* has returned, which is then its first call.
C18_ReadThenOneMutation ==
    \A i \in Invs :
        /\ Reads(i) <= 1
        /\ Mutations(i) <= 1
        /\ ~(Issued(i, "AddLabel") >= 1 /\ Issued(i, "RemoveLabel") >= 1)
        /\ Mutations(i) >= 1
              => /\ pc[i] # "GetIssueLabels"
                 /\ HasRead(i)
                 /\ calls[i][1].op = "GetIssueLabels"
                 /\ \A k \in 2..Len(calls[i]) : calls[i][k].op # "GetIssueLabels"

\* One invocation has read and then removed the label, another has read and
\* waits for its AddLabel call.
C18_Witness ==
    /\ Len(calls[1]) = 2
    /\ calls[1][1].op = "GetIssueLabels" /\ calls[1][2].op = "RemoveLabel"
    /\ Len(calls[2]) = 1
    /\ calls[2][1].op = "GetIssueLabels" /\ pc[2] = "AddLabel"

(***************************************************************************)
(* C19                                                                     *)
(***************************************************************************)

\* The step changes the labels of issue n by label l only: it adds l or it
\* removes l.
AddsOnly(n, l) == issueLabels'[n] = issueLabels[n] \cup {l} /\ l \notin issueLabels[n]

RemovesOnly(n, l) == issueLabels'[n] = issueLabels[n] \ {l} /\ l \in issueLabels[n]

\* The step is the return of a call of op to invocation i.
CallReturns(i, op) == pc[i] = op /\ pc'[i] # op

\* C19: a step changes the labels of an issue only by adding "ok-to-merge",
\* as the AddLabel call of an invocation on that issue whose wantMerge is
\* true, or by removing "ok-to-merge", as the RemoveLabel call of an
\* invocation on that issue whose wantMerge is false; so the other labels of
\* every issue stay as they were.  Every AddLabel is issued with wantMerge
\* true and every RemoveLabel with wantMerge false, for "ok-to-merge" on the
\* issue of the invocation's event.
C19_OnlyOwnMergeLabel ==
    /\ [][\A n \in Issues :
             issueLabels'[n] # issueLabels[n]
                => \E i \in Invs :
                      /\ e[i].Number = n
                      /\ \/ AddsOnly(n, "ok-to-merge") /\ CallReturns(i, "AddLabel") /\ wantMerge[i]
                         \/ RemovesOnly(n, "ok-to-merge") /\ CallReturns(i, "RemoveLabel") /\ ~wantMerge[i]]_vars
    /\ [](\A n \in Issues : issueLabels[n] \ {"ok-to-merge"} = OtherLabels[n])
    /\ [](\A i \in Invs :
             /\ Issued(i, "AddLabel") >= 1 => wantMerge[i] /\ AsksMerge(i)
             /\ Issued(i, "RemoveLabel") >= 1 => ~wantMerge[i] /\ AsksCancel(i)
             /\ OwnTarget(i))

\* An invocation on the second issue has added the label there and one on
\* the first issue has removed it there; the first issue still has "lgtm".
C19_Witness ==
    /\ e[1].Number = "org/repo#2" /\ e[2].Number = "org/repo#1"
    /\ Len(calls[1]) = 2 /\ calls[1][2].op = "AddLabel" /\ calls[1][2].ok
    /\ Len(calls[2]) = 2 /\ calls[2][2].op = "RemoveLabel" /\ calls[2][2].ok
    /\ issueLabels["org/repo#2"] = {"ok-to-merge"}
    /\ issueLabels["org/repo#1"] = {"lgtm"}

(***************************************************************************)
(* C20                                                                     *)
(***************************************************************************)

\* The client call invocation i is waiting for returns.
ClientReturns(i) ==
    \/ \E outcome \in {"ok", "err"} : GetIssueLabels(i, outcome)
    \/ \E outcome \in ClientOutcomes : AddLabel(i, outcome)
    \/ \E outcome \in ClientOutcomes : RemoveLabel(i, outcome)

\* Every client call returns.
SpecFair == Spec /\ \A i \in Invs : WF_vars(ClientReturns(i))

\* C20: provided every client call returns, every invocation that was handed
\* an event eventually returns a result, nil or an error, and it makes at
\* most two client calls.
C20_EventuallyReturns ==
    /\ \A i \in Invs :
          (e[i] # NoEvent) ~> (Returned(i) /\ result[i] \in {"nil", "addErr", "removeErr"})
    /\ [](\A i \in Invs : Len(calls[i]) <= 2)

\* Both invocations have returned, one with nil after a failed read and an
\* AddLabel call, the other with the error of its RemoveLabel call.
C20_Witness ==
    /\ Returned(1) /\ Returned(2)
    /\ Len(calls[1]) = 2 /\ ~calls[1][1].ok /\ calls[1][2].op = "AddLabel"
    /\ result[1] = "nil"
    /\ Len(calls[2]) = 2 /\ calls[2][2].op = "RemoveLabel"
    /\ result[2] = "removeErr"

====
